---- MODULE Spec2Model ----
(***************************************************************************)
(* Model of generate.py: the generator of iCalendar files for the Dunedin  *)
(* City Council recycling collection days.                                 *)
(*                                                                         *)
(* Dates are proleptic Gregorian ordinals, as datetime.date compares and   *)
(* adds them (date.toordinal(); 0001-01-01 is day 1).  One action is one   *)
(* pass of the body of a loop of the script.                               *)
(***************************************************************************)
EXTENDS Integers, Sequences, FiniteSets, TLC

(***************************************************************************)
(* Bounds of the model.                                                    *)
(***************************************************************************)
\* cap of the open-ended week counter of itertools.count()
MaxWeek == 60
\* number of nominal dates, counted from 2021-01-01, resolved by SpecResolve
MaxDays == 2250

(***************************************************************************)
(* datetime.date                                                           *)
(***************************************************************************)
is_leap(y) == (y % 4 = 0) /\ ((y % 100 # 0) \/ (y % 400 = 0))

days_before_year(y) ==
    (y - 1) * 365 + ((y - 1) \div 4) - ((y - 1) \div 100) + ((y - 1) \div 400)

days_in_month(y, m) ==
    IF m = 2 THEN (IF is_leap(y) THEN 29 ELSE 28)
    ELSE IF m \in {4, 6, 9, 11} THEN 30 ELSE 31

RECURSIVE days_before_month(_, _)
days_before_month(y, m) ==
    IF m = 1 THEN 0 ELSE days_before_month(y, m - 1) + days_in_month(y, m - 1)

\* date(y, m, d), as its ordinal
date(y, m, d) == days_before_year(y) + days_before_month(y, m) + d

\* date.weekday(): Monday is 0
weekday_of(d) == (d + 6) % 7

\* the years str(date) is computed for
IsoYears == 2020 .. 2028

\* str(date): the fields <<YYYY, MM, DD>> of the text YYYY-MM-DD, the year and
\* month whose days d falls among
isoformat(d) ==
    CHOOSE t \in {<<yy, mm, d - days_before_year(yy) - days_before_month(yy, mm)>> :
                      yy \in IsoYears, mm \in 1 .. 12} :
        t[3] >= 1 /\ t[3] <= days_in_month(t[1], t[2])

(***************************************************************************)
(* The tables of the script                                                *)
(***************************************************************************)
\* Python's None, as the value of a cancelled pickup: no date has ordinal 0
None == 0

\* If a pickup would normally be `key`, do it `value` instead
exceptions ==
    (date(2021, 4, 2) :> date(2021, 4, 3))
    @@ (date(2022, 1, 31) :> None)
    @@ (date(2022, 4, 15) :> date(2022, 4, 16))
    @@ (date(2023, 4, 7) :> date(2023, 4, 8))
    @@ (date(2023, 12, 25) :> date(2023, 12, 30))
    @@ (date(2024, 1, 1) :> date(2024, 1, 6))
    @@ (date(2024, 3, 29) :> date(2024, 3, 30))
    @@ (date(2024, 12, 25) :> date(2024, 12, 28))
    @@ (date(2025, 1, 1) :> date(2025, 1, 4))
    @@ (date(2025, 4, 18) :> date(2025, 4, 19))
    @@ (date(2025, 12, 25) :> date(2025, 12, 27))
    @@ (date(2026, 1, 1) :> date(2026, 1, 3))
    @@ (date(2026, 4, 3) :> date(2026, 4, 4))
    @@ (date(2026, 12, 25) :> date(2026, 12, 26))

\* the date that "week one" starts with yellow bin pickup
first_day_of_week ==
    (2021 :> [Monday |-> date(2021, 2, 1), Tuesday |-> date(2021, 2, 2),
              Wednesday |-> date(2021, 2, 3), Thursday |-> date(2021, 2, 4),
              Friday |-> date(2021, 2, 5)])
    @@ (2022 :> [Monday |-> date(2022, 1, 31), Tuesday |-> date(2022, 2, 1),
                 Wednesday |-> date(2022, 2, 2), Thursday |-> date(2022, 2, 3),
                 Friday |-> date(2022, 2, 4)])
    @@ (2023 :> [Monday |-> date(2023, 1, 2), Tuesday |-> date(2023, 2, 3),
                 Wednesday |-> date(2023, 2, 4), Thursday |-> date(2023, 2, 5),
                 Friday |-> date(2023, 2, 6)])
    @@ (2024 :> [Monday |-> date(2024, 1, 1), Tuesday |-> date(2024, 1, 2),
                 Wednesday |-> date(2024, 1, 3), Thursday |-> date(2024, 1, 4),
                 Friday |-> date(2024, 1, 5)])
    @@ (2025 :> [Monday |-> date(2025, 1, 13), Tuesday |-> date(2025, 1, 14),
                 Wednesday |-> date(2025, 1, 1), Thursday |-> date(2025, 1, 2),
                 Friday |-> date(2025, 1, 3)])
    @@ (2026 :> [Monday |-> date(2026, 1, 12), Tuesday |-> date(2026, 1, 13),
                 Wednesday |-> date(2026, 1, 14), Thursday |-> date(2026, 1, 1),
                 Friday |-> date(2026, 1, 2)])

\* the keys of first_day_of_week, in the order `for year in` visits them
years == <<2021, 2022, 2023, 2024, 2025, 2026>>

\* Stop generation for a particular year after this date
last_day_of_year ==
    (2021 :> date(2022, 1, 31))
    @@ (2022 :> date(2023, 1, 31))
    @@ (2023 :> date(2023, 12, 30))
    @@ (2024 :> date(2024, 12, 31))
    @@ (2025 :> date(2025, 12, 31))
    @@ (2026 :> date(2026, 12, 31))

\* After this day, we use red bins for waste every second week
red_bins_start == date(2024, 7, 1)

colours == <<"Yellow", "Blue">>

day_of_week == <<"Monday", "Tuesday", "Wednesday", "Thursday", "Friday">>

\* str.lower() on the names of day_of_week
lower(w) ==
    CASE w = "Monday" -> "monday"
      [] w = "Tuesday" -> "tuesday"
      [] w = "Wednesday" -> "wednesday"
      [] w = "Thursday" -> "thursday"
      [] w = "Friday" -> "friday"

(***************************************************************************)
(* Events                                                                  *)
(***************************************************************************)
make_event(colour) ==
    IF colour = "Yellow"
    THEN [summary |-> "Yellow bin", description |-> "YELLOW WEEK"]
    ELSE IF colour = "Blue"
    THEN [summary |-> "Blue bin", description |-> "BLUE WEEK"]
    ELSE [summary |-> "", description |-> ""]

make_new_event(colour) ==
    IF colour = "Yellow"
    THEN [summary |-> "Green and Yellow", description |-> "Yellow bin"]
    ELSE IF colour = "Blue"
    THEN [summary |-> "Green, Red, and Blue", description |-> "Blue Bin"]
    ELSE [summary |-> "", description |-> ""]

(***************************************************************************)
(* The statements of the generation loop                                   *)
(***************************************************************************)
\* the file name without the colour index
filename_of_one_week(ci, weekday) == [week |-> 1, day |-> lower(weekday), ext |-> "ics"]

\* "week-{}-{}.ics".format(colour_index+1, weekday.lower())
filename_of(ci, weekday) == [week |-> ci + 1, day |-> lower(weekday), ext |-> "ics"]

\* the prodid of the calendar
prodid_of(ci, weekday) ==
    [org |-> "Dunedin City Council", week |-> ci + 1, pickup |-> weekday]

\* first + timedelta(days = 7 * week)
candidate(first, week) == first + 7 * week

\* the pickup put off by a week instead of looked up
resolve_postponed(start) == IF start \in DOMAIN exceptions THEN start + 7 ELSE start

\* if start in exceptions: start = exceptions[start]
resolve(start) == IF start \in DOMAIN exceptions THEN exceptions[start] ELSE start

\* the comparison the wrong way round
past_last_day_inverted(start, last) == start < last

\* the break taken on the last day too
past_last_day_inclusive(start, last) == start >= last

\* if start > last_day_of_year[year]: break
past_last_day(start, last) == start > last

\* the rotation taken from the 1-based index of the file name
colour_of_one_based(ci, week) == colours[((ci + 1 + week) % Len(colours)) + 1]

\* colours[(colour_index + week) % len(colours)]
colour_of(ci, week) == colours[((ci + week) % Len(colours)) + 1]

\* the new scheme from the day after red_bins_start only
template_of_after(start, colour) ==
    IF start > red_bins_start THEN make_new_event(colour) ELSE make_event(colour)

\* if start >= red_bins_start: make_new_event(colour) else: make_event(colour)
template_of(start, colour) ==
    IF start >= red_bins_start THEN make_new_event(colour) ELSE make_event(colour)

\* cal.to_ical(): the properties of the calendar and its VEVENT blocks, by
\* their number
to_ical(c) == [prodid |-> c.prodid, version |-> c.version, tz |-> c.tz,
               vevents |-> Len(c.events)]

\* "recycling-week{}-{}".format(colour_index+1, start)
uid_of(ci, start) == [prefix |-> "recycling-week", week |-> ci + 1, date |-> isoformat(start)]

(***************************************************************************)
(* State                                                                   *)
(***************************************************************************)
VARIABLES
    pc,             \* the statement the script is at
    last_days,      \* the last_day_of_year table the script runs with
    colour_index,   \* 0-based, as range(len(colours)) yields it
    weekday_index,  \* position in day_of_week, 1-based
    year_index,     \* position in years, 1-based
    week,           \* the counter of count()
    cal,            \* the Calendar being built
    fs,             \* the files of the working directory, by name
    nominal,        \* SpecResolve: the date to resolve
    once,           \* SpecResolve: the date resolved once
    twice           \* SpecResolve: the date resolved twice

vars == <<pc, last_days, colour_index, weekday_index, year_index, week, cal, fs,
          nominal, once, twice>>

weekday == day_of_week[weekday_index]
year == years[year_index]
first == first_day_of_week[year][weekday]
start == candidate(first, week)
filename == filename_of(colour_index, weekday)

\* a file that was never opened
NoFile == [opens |-> 0, writes |-> 0, content |-> <<>>]

file_of(name) == IF name \in DOMAIN fs THEN fs[name] ELSE NoFile

Init ==
    /\ pc = "open"
    /\ last_days = last_day_of_year
    /\ colour_index = 0
    /\ weekday_index = 1
    /\ year_index = 1
    /\ week = 0
    /\ cal = [prodid |-> prodid_of(0, "Monday"), version |-> "", tz |-> "", events |-> <<>>]
    /\ fs = <<>>
    /\ nominal = None
    /\ once = None
    /\ twice = None

\* open(filename, "wb") creates or truncates the file; cal = Calendar()
OpenFile ==
    /\ pc = "open"
    /\ fs' = (filename :> [opens |-> file_of(filename).opens + 1,
                           writes |-> file_of(filename).writes,
                           content |-> <<>>]) @@ fs
    /\ cal' = [prodid |-> prodid_of(colour_index, weekday), version |-> "2.0",
               tz |-> "Pacific/Auckland", events |-> <<>>]
    /\ year_index' = 1
    /\ week' = 0
    /\ pc' = "walk"
    /\ UNCHANGED <<last_days, colour_index, weekday_index, nominal, once, twice>>

\* exceptions[start] is None: continue
SkipWeek ==
    /\ pc = "walk"
    /\ resolve(start) = None
    /\ week < MaxWeek
    /\ week' = week + 1
    /\ UNCHANGED <<pc, last_days, colour_index, weekday_index, year_index, cal, fs,
                   nominal, once, twice>>

\* last_day_of_year[year] raises KeyError; the with statement closes the file
RaiseKeyError ==
    /\ pc = "walk"
    /\ resolve(start) # None
    /\ year \notin DOMAIN last_days
    /\ pc' = "error"
    /\ UNCHANGED <<last_days, colour_index, weekday_index, year_index, week, cal, fs,
                   nominal, once, twice>>

\* start > last_day_of_year[year]: break, and on to the next year, or out of
\* the loop over the years
BreakYear ==
    /\ pc = "walk"
    /\ resolve(start) # None
    /\ year \in DOMAIN last_days
    /\ past_last_day(resolve(start), last_days[year])
    /\ IF year_index < Len(years)
       THEN /\ year_index' = year_index + 1
            /\ week' = 0
            /\ pc' = "walk"
       ELSE /\ pc' = "write"
            /\ UNCHANGED <<year_index, week>>
    /\ UNCHANGED <<last_days, colour_index, weekday_index, cal, fs, nominal, once, twice>>

\* the event of this week; year, week and nominal record the loop variables
\* the event was made under
new_event ==
    LET s == resolve(start)
        t == template_of(s, colour_of(colour_index, week))
    IN  [summary |-> t.summary, description |-> t.description,
         dtstart |-> s, dtend |-> s + 1, uid |-> uid_of(colour_index, s),
         year |-> year, week |-> week, nominal |-> start]

\* cal.add_component(event)
AddEvent ==
    /\ pc = "walk"
    /\ resolve(start) # None
    /\ year \in DOMAIN last_days
    /\ ~past_last_day(resolve(start), last_days[year])
    /\ week < MaxWeek
    /\ cal' = [cal EXCEPT !.events = Append(@, new_event)]
    /\ week' = week + 1
    /\ UNCHANGED <<pc, last_days, colour_index, weekday_index, year_index, fs,
                   nominal, once, twice>>

\* file.write(cal.to_ical()), and on to the next weekday and colour index
WriteFile ==
    /\ pc = "write"
    /\ fs' = [fs EXCEPT ![filename] = [opens |-> @.opens, writes |-> @.writes + 1,
                                       content |-> Append(@.content, to_ical(cal))]]
    /\ IF weekday_index < Len(day_of_week)
       THEN /\ weekday_index' = weekday_index + 1
            /\ pc' = "open"
            /\ UNCHANGED colour_index
       ELSE IF colour_index + 1 < Len(colours)
       THEN /\ colour_index' = colour_index + 1
            /\ weekday_index' = 1
            /\ pc' = "open"
       ELSE /\ pc' = "done"
            /\ UNCHANGED <<colour_index, weekday_index>>
    /\ UNCHANGED <<last_days, year_index, week, cal, nominal, once, twice>>

Next == OpenFile \/ SkipWeek \/ BreakYear \/ AddEvent \/ WriteFile

Spec == Init /\ [][Next]_vars

\* the script is the only process: it runs until it ends
FairSpec == Spec /\ WF_vars(Next)

(***************************************************************************)
(* The script run with a last_day_of_year table that may lack one of the   *)
(* years of first_day_of_week.                                             *)
(***************************************************************************)
without_year(y) == [x \in (DOMAIN last_day_of_year) \ {y} |-> last_day_of_year[x]]

InitConfig ==
    /\ pc = "open"
    /\ last_days \in {last_day_of_year} \cup {without_year(y) : y \in DOMAIN last_day_of_year}
    /\ colour_index = 0
    /\ weekday_index = 1
    /\ year_index = 1
    /\ week = 0
    /\ cal = [prodid |-> prodid_of(0, "Monday"), version |-> "", tz |-> "", events |-> <<>>]
    /\ fs = <<>>
    /\ nominal = None
    /\ once = None
    /\ twice = None

NextConfig == OpenFile \/ SkipWeek \/ RaiseKeyError \/ BreakYear \/ AddEvent \/ WriteFile

SpecConfig == InitConfig /\ [][NextConfig]_vars

(***************************************************************************)
(* The exception substitution on its own, applied to a date and then to    *)
(* the date it yields.                                                     *)
(***************************************************************************)
NominalDates == date(2021, 1, 1) .. (date(2021, 1, 1) + MaxDays - 1)

InitResolve ==
    /\ pc = "nominal"
    /\ nominal \in NominalDates
    /\ once = None
    /\ twice = None
    /\ last_days = last_day_of_year
    /\ colour_index = 0
    /\ weekday_index = 1
    /\ year_index = 1
    /\ week = 0
    /\ cal = [prodid |-> prodid_of(0, "Monday"), version |-> "", tz |-> "", events |-> <<>>]
    /\ fs = <<>>

ResolveOnce ==
    /\ pc = "nominal"
    /\ once' = resolve(nominal)
    /\ pc' = "once"
    /\ UNCHANGED <<last_days, colour_index, weekday_index, year_index, week, cal, fs,
                   nominal, twice>>

\* a cancelled pickup has no date to resolve again
ResolveTwice ==
    /\ pc = "once"
    /\ once # None
    /\ twice' = resolve(once)
    /\ pc' = "twice"
    /\ UNCHANGED <<last_days, colour_index, weekday_index, year_index, week, cal, fs,
                   nominal, once>>

NextResolve == ResolveOnce \/ ResolveTwice

SpecResolve == InitResolve /\ [][NextResolve]_vars

(***************************************************************************)
(* Properties                                                              *)
(***************************************************************************)
events == cal.events

\* the colour an event's summary names
summary_colour(e) ==
    IF e.summary \in {"Yellow bin", "Green and Yellow"} THEN "Yellow"
    ELSE IF e.summary \in {"Blue bin", "Green, Red, and Blue"} THEN "Blue"
    ELSE "none"

\* the exception table cancels the pickup of date d
cancelled(d) == d \in DOMAIN exceptions /\ exceptions[d] = None

\* the date the exception table moves the pickup of date d to
moved(d) == IF d \in DOMAIN exceptions THEN exceptions[d] ELSE d

\* the weekday and the bin index of the document, as its prodid names them
doc_weekday == cal.prodid.pickup
doc_index == cal.prodid.week - 1

\* the nominal date of week k of year y, for the weekday of the document
nominal_of(y, k) == first_day_of_week[y][doc_weekday] + 7 * k

\* C1: in every calendar document the dates of the events, in the order the
\* events were added over all the years, are strictly increasing, so that no
\* date occurs twice.
C1_DatesStrictlyIncreasing ==
    \A i, j \in 1 .. Len(events) : i < j => events[i].dtstart < events[j].dtstart

\* C2: once all the years of a document have been processed, no two of its
\* events carry the same uid.
C2_UidsUnique ==
    pc = "write" =>
        \A i, j \in 1 .. Len(events) : i < j => events[i].uid # events[j].uid

\* C3: the colour of every event is colours[(colour_index + w) mod 2] for the
\* number w of 7-day steps from the year's first day to the event's nominal
\* (pre-exception) date; a cancelled week has no event, the walk goes on past
\* it, and the week after it has its event with the next week index.
C3_ColourByWeekIndex ==
    /\ \A i \in 1 .. Len(events) :
           LET e == events[i]
               w == (e.nominal - first_day_of_week[e.year][doc_weekday]) \div 7
           IN  /\ e.nominal = nominal_of(e.year, w)
               /\ summary_colour(e) = colours[((doc_index + w) % 2) + 1]
    /\ pc = "walk" =>
           \A k \in 0 .. week - 1 :
               cancelled(nominal_of(year, k)) =>
                   /\ \A i \in 1 .. Len(events) :
                          ~(events[i].year = year /\ events[i].nominal = nominal_of(year, k))
                   /\ k + 1 < week =>
                          \E i \in 1 .. Len(events) :
                              /\ events[i].year = year
                              /\ events[i].nominal = nominal_of(year, k + 1)
                              /\ summary_colour(events[i])
                                     = colours[((doc_index + k + 1) % 2) + 1]

\* the week after the cancelled first week of 2022 has the second colour
C3_Witness ==
    /\ colour_index = 0
    /\ weekday = "Monday"
    /\ cancelled(nominal_of(2022, 0))
    /\ \E i \in 1 .. Len(events) :
           /\ events[i].year = 2022
           /\ events[i].dtstart = date(2022, 2, 7)
           /\ events[i].summary = "Blue bin"
    /\ \E i \in 1 .. Len(events) :
           events[i].year = 2022 /\ events[i].dtstart = date(2022, 2, 14)

\* week k of year y is a pickup after the last day of year y
exceeds(y, k) ==
    /\ ~cancelled(nominal_of(y, k))
    /\ moved(nominal_of(y, k)) > last_day_of_year[y]

\* the first week of year y that is a pickup after the last day of year y
stop_week(y) ==
    CHOOSE k \in 0 .. MaxWeek + 1 : exceeds(y, k) /\ \A j \in 0 .. k - 1 : ~exceeds(y, j)

\* the weeks of year y before week n that are not cancelled
pickups(y, n) == {<<y, k>> : k \in {j \in 0 .. n - 1 : ~cancelled(nominal_of(y, j))}}

\* the years whose walk has ended
years_done ==
    IF pc = "walk" THEN {years[j] : j \in 1 .. year_index - 1}
    ELSE IF pc = "write" THEN {years[j] : j \in 1 .. Len(years)}
    ELSE {}

\* C4: no event of year y is dated after last_day_of_year[y], by its date
\* after the exception; the events of a year whose walk has ended are those
\* of the weeks, not cancelled, before the first week whose date after the
\* exception is past the bound; the events of the year being walked are
\* those of all its weeks so far that are not cancelled.
C4_BoundOnResolvedDate ==
    /\ \A i \in 1 .. Len(events) :
           /\ events[i].dtstart = moved(events[i].nominal)
           /\ events[i].dtstart <= last_day_of_year[events[i].year]
    /\ pc \in {"walk", "write"} =>
           {<<events[i].year, events[i].week>> : i \in 1 .. Len(events)}
               = UNION ({pickups(y, stop_week(y)) : y \in years_done}
                        \cup {IF pc = "walk" THEN pickups(year, week) ELSE {}})
    /\ pc = "walk" => \A k \in 0 .. week - 1 : ~exceeds(year, k)

\* the walk of 2023 has ended after the event of 2023-12-25, moved onto the
\* last day of 2023
C4_Witness ==
    /\ weekday = "Monday"
    /\ pc = "walk"
    /\ year = 2024
    /\ \E i \in 1 .. Len(events) :
           /\ events[i].year = 2023
           /\ events[i].nominal = date(2023, 12, 25)
           /\ events[i].dtstart = last_day_of_year[2023]
    /\ \A i \in 1 .. Len(events) :
           events[i].year = 2023 => events[i].nominal <= date(2023, 12, 25)

C6_MissingYearAbortsWholeRun ==
    /\ pc \in {"walk", "error"} =>
           \A j \in 1 .. year_index - 1 : years[j] \in DOMAIN last_days
    /\ pc = "error" =>
           \A f \in DOMAIN fs : fs[f].opens = fs[f].writes /\ Len(fs[f].content) = 1

\* C7: resolving the date a nominal date resolves to yields that date again.
C7_ResolveIdempotent == pc = "twice" => twice = once

\* a replaced date was resolved again
C7_Witness ==
    /\ pc = "twice"
    /\ nominal = date(2023, 12, 25)
    /\ once = date(2023, 12, 30)

\* the names of the files of a run
all_filenames ==
    {[week |-> i, day |-> d, ext |-> "ics"] :
        i \in 1 .. 2, d \in {"monday", "tuesday", "wednesday", "thursday", "friday"}}

\* week k of year y, for weekday w, is a pickup no later than the last day of
\* year y
in_year(w, y, k) ==
    LET d == first_day_of_week[y][w] + 7 * k
    IN  ~cancelled(d) /\ moved(d) <= last_day_of_year[y]

\* the number of pickups of weekday w in year y, up to its last day
RECURSIVE pickup_count(_, _, _)
pickup_count(w, y, k) ==
    IF k > MaxWeek THEN 0
    ELSE (IF in_year(w, y, k) THEN 1 ELSE 0) + pickup_count(w, y, k + 1)

RECURSIVE pickup_total(_, _)
pickup_total(w, j) ==
    IF j = 0 THEN 0 ELSE pickup_count(w, years[j], 0) + pickup_total(w, j - 1)

\* every file of the run was opened once and written once, with the calendar
\* of its bin index and weekday and the events of all the years
files_complete ==
    /\ DOMAIN fs = all_filenames
    /\ Cardinality(DOMAIN fs) = 10
    /\ \A f \in DOMAIN fs :
           /\ fs[f].opens = 1
           /\ fs[f].writes = 1
           /\ Len(fs[f].content) = 1
           /\ fs[f].content[1].prodid.week = f.week
           /\ lower(fs[f].content[1].prodid.pickup) = f.day
           /\ fs[f].content[1].vevents
                  = pickup_total(fs[f].content[1].prodid.pickup, Len(years))

\* C8: the run ends, and at its end each of the 10 files of the 2 bin
\* indexes and 5 weekdays has been written once, after all the years.
C8_TerminatesWithTenFiles == <>(pc = "done" /\ files_complete)

\* the run has ended with its 10 files
C8_Witness ==
    /\ pc = "done"
    /\ Cardinality(DOMAIN fs) = 10
    /\ \A f \in DOMAIN fs : fs[f].writes = 1 /\ fs[f].content[1].vevents > 300

\* C9: in the document of a weekday every event whose date no exception
\* replaced falls on that weekday.
C9_EventsOnWeekday ==
    \A i \in 1 .. Len(events) :
        events[i].dtstart = events[i].nominal
            => weekday_of(events[i].dtstart)
                   = (CHOOSE n \in 1 .. Len(day_of_week) : day_of_week[n] = doc_weekday) - 1

\* C10: the first nominal date of a year is at most 7 days after the last
\* nominal date of the year before that did not end that year's walk.
C10_NoWeekLostAtYearBoundary ==
    [][year_index' = year_index + 1 =>
           first_day_of_week[years[year_index + 1]][weekday]
               - (first_day_of_week[year][weekday] + 7 * (week - 1)) <= 7]_vars

====
